---- MODULE Spec2Model ----
(***************************************************************************)
(* HLTV team matches -> iCal feed (src/index.js).                          *)
(*                                                                         *)
(* Strings are sequences of one-character strings, so that escaping,       *)
(* folding, parsing and formatting are computed character by character.    *)
(* Instants are epoch milliseconds.  TLC's integers are 32 bits wide, so   *)
(* the instants of the model lie in the first days of the epoch; the code  *)
(* computes on doubles, exact far beyond every value used here, so no      *)
(* wrap-around is modelled.                                                *)
(***************************************************************************)
EXTENDS Integers, Sequences, FiniteSets, TLC

VARIABLES
    clock,                  \* Date.now()
    CACHE,                  \* the Map of line 18: url -> {ts, body}
    FLARESOLVERR_SESSION,   \* the token of line 21, or Null
    startup,                \* position of the app.listen callback
    reqs,                   \* the feed requests: position, inputs, response
    handlers,               \* position of the SIGTERM and SIGINT handlers
    exited,                 \* process.exit(0) was called
    service,                \* the bypass service: sessions made, sessions.destroy sent to it
    writes,                 \* the assignments made to FLARESOLVERR_SESSION, in order
    pin,                    \* input of the pure pipeline under check
    pout                    \* its result, or NotDone

vars == <<clock, CACHE, FLARESOLVERR_SESSION, startup, reqs, handlers, exited, service,
          writes, pin, pout>>

lifeVars == <<handlers, exited, service, writes>>

serverVars == <<clock, CACHE, FLARESOLVERR_SESSION, startup, reqs, lifeVars>>

pureVars == <<pin, pout>>

(***************************************************************************)
(* Characters and JavaScript values.                                       *)
(***************************************************************************)
BSL == "\\"

LF == "\n"

CR == "\r"

SP == " "

\* U+2014, the dash of the summary and of the calendar name (one UTF-16 unit).
EMDASH == "U+2014"

Null == "null"

\* The value undefined where a string may stand: a sequence no string equals
\* (every element of a string is one character).
Undefined == <<"<undefined>">>

\* A number that may be NaN, and with it a Date (its epoch milliseconds, NaN
\* when the Date is invalid).
Num(n) == [nan |-> FALSE, v |-> n]

NaN == [nan |-> TRUE, v |-> 0]

\* ev.end of an event that has none.
NoDate == [absent |-> TRUE]

Digits == <<"0", "1", "2", "3", "4", "5", "6", "7", "8", "9">>

DigitSet == {Digits[i] : i \in 1..10}

DigitVal(c) == (CHOOSE i \in 1..10 : Digits[i] = c) - 1

\* \s of a JavaScript regular expression and the white space of trim(),
\* over the characters of the model.
IsSpace(c) == c \in {SP, LF, CR, "\t"}

RECURSIVE NatStr(_)
NatStr(n) ==
    IF n < 10 THEN <<Digits[n + 1]>>
    ELSE NatStr(n \div 10) \o <<Digits[(n % 10) + 1]>>

\* String(n) of an integer.
IntStr(n) == IF n < 0 THEN <<"-">> \o NatStr(-n) ELSE NatStr(n)

\* String(x) of a number that may be NaN.
NumStr(x) == IF x.nan THEN <<"N", "a", "N">> ELSE IntStr(x.v)

\* parts.join(sep), computed by halves.
Join(parts, sep) ==
    LET RECURSIVE Go(_, _)
        Go(lo, hi) ==
            IF lo > hi THEN <<>>
            ELSE IF lo = hi THEN parts[lo]
            ELSE Go(lo, (lo + hi) \div 2) \o sep \o Go((lo + hi) \div 2 + 1, hi)
    IN Go(1, Len(parts))

CRLF == <<CR, LF>>

\* s.replace(/c/g, rep) for a one-character pattern, computed by halves.
ReplaceChar(s, c, rep) ==
    LET RECURSIVE Go(_, _)
        Go(lo, hi) ==
            IF lo > hi THEN <<>>
            ELSE IF lo = hi THEN (IF s[lo] = c THEN rep ELSE <<s[lo]>>)
            ELSE Go(lo, (lo + hi) \div 2) \o Go((lo + hi) \div 2 + 1, hi)
    IN Go(1, Len(s))

StartsWithAt(s, i, p) ==
    /\ i + Len(p) - 1 <= Len(s)
    /\ \A k \in 1..Len(p) : s[i + k - 1] = p[k]

trim(s) ==
    LET keep == {i \in 1..Len(s) : ~IsSpace(s[i])}
    IN IF keep = {} THEN <<>>
       ELSE SubSeq(s, CHOOSE i \in keep : \A j \in keep : i <= j,
                      CHOOSE i \in keep : \A j \in keep : j <= i)

(***************************************************************************)
(* ICS encoder: icsEscape, foldIcsLine.                                    *)
(***************************************************************************)
\* icsEscape with the backslash escaped last instead of first.
icsEscape_BackslashLast(text) ==
    LET s0 == IF text = Undefined THEN <<>> ELSE text
        s1 == ReplaceChar(s0, LF, <<BSL, "n">>)
        s2 == ReplaceChar(s1, CR, <<>>)
        s3 == ReplaceChar(s2, ",", <<BSL, ",">>)
        s4 == ReplaceChar(s3, ";", <<BSL, ";">>)
    IN ReplaceChar(s4, BSL, <<BSL, BSL>>)

icsEscape(text) ==
    LET s0 == IF text = Undefined THEN <<>> ELSE text
        s1 == ReplaceChar(s0, BSL, <<BSL, BSL>>)
        s2 == ReplaceChar(s1, LF, <<BSL, "n">>)
        s3 == ReplaceChar(s2, CR, <<>>)
        s4 == ReplaceChar(s3, ",", <<BSL, ",">>)
    IN ReplaceChar(s4, ";", <<BSL, ";">>)

limit == 75

RECURSIVE FoldParts(_, _)
FoldParts(parts, line) ==
    IF Len(line) > limit
    THEN FoldParts(Append(parts, SubSeq(line, 1, limit)),
                   <<SP>> \o SubSeq(line, limit + 1, Len(line)))
    ELSE Append(parts, line)

\* foldIcsLine with the continuation cut one character too far.
foldIcsLine_SkipOne(line) ==
    LET RECURSIVE Go(_, _)
        Go(parts, l) ==
            IF Len(l) > limit
            THEN Go(Append(parts, SubSeq(l, 1, limit)),
                    <<SP>> \o SubSeq(l, limit + 2, Len(l)))
            ELSE Append(parts, l)
    IN IF Len(line) <= limit THEN line ELSE Join(Go(<<>>, line), CRLF)

foldIcsLine(line) ==
    IF Len(line) <= limit THEN line
    ELSE Join(FoldParts(<<>>, line), CRLF)

(***************************************************************************)
(* fmtIcsDateUTC.                                                          *)
(***************************************************************************)
MS_PER_DAY == 24 * 60 * 60 * 1000

\* The proleptic Gregorian date of a day number (days since 1970-01-01), as
\* Date.prototype.getUTCFullYear / getUTCMonth / getUTCDate compute it.
CivilFromDays(days) ==
    LET z == days + 719468
        era == z \div 146097
        doe == z - era * 146097
        yoe == (doe - doe \div 1460 + doe \div 36524 - doe \div 146096) \div 365
        doy == doe - (365 * yoe + yoe \div 4 - yoe \div 100)
        mp == (5 * doy + 2) \div 153
        d == doy - (153 * mp + 2) \div 5 + 1
        m == IF mp < 10 THEN mp + 3 ELSE mp - 9
        y == yoe + era * 400 + (IF m <= 2 THEN 1 ELSE 0)
    IN [year |-> y, month |-> m, day |-> d]

\* pad of line 67: String(n).padStart(2, '0').
pad(x) ==
    LET s == NumStr(x)
    IN IF Len(s) < 2 THEN <<"0">> \o s ELSE s

fmtIcsDateUTC(date) ==
    IF date.nan
    THEN NumStr(NaN) \o pad(NaN) \o pad(NaN) \o <<"T">>
         \o pad(NaN) \o pad(NaN) \o pad(NaN) \o <<"Z">>
    ELSE LET c == CivilFromDays(date.v \div MS_PER_DAY)
             r == date.v % MS_PER_DAY
         IN IntStr(c.year) \o pad(Num(c.month)) \o pad(Num(c.day)) \o <<"T">>
            \o pad(Num(r \div 3600000)) \o pad(Num((r \div 60000) % 60))
            \o pad(Num((r \div 1000) % 60)) \o <<"Z">>

(***************************************************************************)
(* buildICS.  An event is [uid, start, end, summary, description, url];    *)
(* now is the reading of the clock that new Date() of line 102 takes.      *)
(***************************************************************************)
\* The lines the loop of lines 103-118 pushes for one event.
EventLines(ev, dtstamp) ==
    LET summaryOr == IF ev.summary # <<>> THEN ev.summary
                     ELSE <<"H", "L", "T", "V", SP, "M", "a", "t", "c", "h">>
    IN  <<  <<"B", "E", "G", "I", "N", ":", "V", "E", "V", "E", "N", "T">>,
            foldIcsLine(<<"U", "I", "D", ":">> \o icsEscape(ev.uid)),
            <<"D", "T", "S", "T", "A", "M", "P", ":">> \o dtstamp,
            <<"D", "T", "S", "T", "A", "R", "T", ":">> \o fmtIcsDateUTC(ev.start) >>
        \o (IF ev.end # NoDate
            THEN << <<"D", "T", "E", "N", "D", ":">> \o fmtIcsDateUTC(ev.end) >>
            ELSE <<>>)
        \o (IF ev.summary # <<>>
            THEN << foldIcsLine(<<"S", "U", "M", "M", "A", "R", "Y", ":">>
                                \o icsEscape(ev.summary)) >>
            ELSE <<>>)
        \o (IF ev.description # <<>>
            THEN << foldIcsLine(<<"D", "E", "S", "C", "R", "I", "P", "T", "I", "O", "N", ":">>
                                \o icsEscape(ev.description)) >>
            ELSE <<>>)
        \o (IF ev.url # Undefined /\ ev.url # <<>>
            THEN << foldIcsLine(<<"U", "R", "L", ":">> \o icsEscape(ev.url)) >>
            ELSE <<>>)
        \o << <<"B", "E", "G", "I", "N", ":", "V", "A", "L", "A", "R", "M">>,
              <<"A", "C", "T", "I", "O", "N", ":", "D", "I", "S", "P", "L", "A", "Y">>,
              foldIcsLine(<<"D", "E", "S", "C", "R", "I", "P", "T", "I", "O", "N", ":">>
                          \o icsEscape(summaryOr)),
              <<"T", "R", "I", "G", "G", "E", "R", ":", "-", "P", "T", "1", "5", "M">>,
              <<"E", "N", "D", ":", "V", "A", "L", "A", "R", "M">>,
              <<"E", "N", "D", ":", "V", "E", "V", "E", "N", "T">> >>

\* The array `lines` of buildICS before the final join.
IcsLines(events, calName, now) ==
    LET dtstamp == fmtIcsDateUTC(Num(now))
        RECURSIVE Body(_)
        Body(i) == IF i > Len(events) THEN <<>>
                   ELSE EventLines(events[i], dtstamp) \o Body(i + 1)
    IN  <<  <<"B", "E", "G", "I", "N", ":", "V", "C", "A", "L", "E", "N", "D", "A", "R">>,
            <<"V", "E", "R", "S", "I", "O", "N", ":", "2", ".", "0">>,
            <<"P", "R", "O", "D", "I", "D", ":">>
                \o <<"-", "/", "/", "h", "l", "t", "v", "-", "i", "c", "a", "l", "/", "/", "E", "N">>,
            <<"C", "A", "L", "S", "C", "A", "L", "E", ":", "G", "R", "E", "G", "O", "R", "I", "A", "N">>,
            <<"M", "E", "T", "H", "O", "D", ":", "P", "U", "B", "L", "I", "S", "H">>,
            <<"N", "A", "M", "E", ":">> \o icsEscape(calName),
            <<"X", "-", "W", "R", "-", "C", "A", "L", "N", "A", "M", "E", ":">>
                \o icsEscape(calName) >>
        \o Body(1)
        \o << <<"E", "N", "D", ":", "V", "C", "A", "L", "E", "N", "D", "A", "R">> >>

buildICS(events, calName, now) == Join(IcsLines(events, calName, now), CRLF)

(***************************************************************************)
(* parseMatches.  The document cheerio loads is the tree its selectors     *)
(* read: html is the sequence of the table.match-table elements; a table   *)
(* is the sequence of its thead / tbody children, each                     *)
(*   [tag, header, rows]: header is the text of the first                  *)
(*   tr.event-header-cell a below it ("" when there is none), rows are     *)
(*   its tr.team-row descendants;                                          *)
(* a row is [unix, team1, team2, href]: the data-unix attribute and the    *)
(* href attribute (Undefined when absent) and the texts of the two name    *)
(* slots ("" when the slot is missing).                                    *)
(***************************************************************************)
\* Number(s) of a string of digits, signs, white space and other characters
\* (no ".", no exponent, no radix prefix, no "Infinity" among them).
Number(s) ==
    LET t == trim(s)
        signed == t # <<>> /\ t[1] \in {"-", "+"}
        ds == IF signed THEN Tail(t) ELSE t
        RECURSIVE Val(_)
        Val(i) == IF i = 0 THEN 0 ELSE 10 * Val(i - 1) + DigitVal(ds[i])
    IN IF t = <<>> THEN Num(0)
       ELSE IF ds = <<>> \/ \E i \in 1..Len(ds) : ds[i] \notin DigitSet THEN NaN
       ELSE IF signed /\ t[1] = "-" THEN Num(-Val(Len(ds)))
       ELSE Num(Val(Len(ds)))

\* matchRelUrl.match(/\/matches\/(\d+)\//): the capture of the leftmost
\* match, or <<>> when there is none.
MatchId(href) ==
    LET pre == <<"/", "m", "a", "t", "c", "h", "e", "s", "/">>
        \* the end of the digit run that starts at i
        RECURSIVE RunEnd(_)
        RunEnd(i) == IF i <= Len(href) /\ href[i] \in DigitSet THEN RunEnd(i + 1) ELSE i
        ok(i) == /\ StartsWithAt(href, i, pre)
                 /\ RunEnd(i + Len(pre)) > i + Len(pre)
                 /\ RunEnd(i + Len(pre)) <= Len(href)
                 /\ href[RunEnd(i + Len(pre))] = "/"
        hits == {i \in 1..Len(href) : ok(i)}
    IN IF hits = {} THEN <<>>
       ELSE LET i == CHOOSE h \in hits : \A g \in hits : h <= g
            IN SubSeq(href, i + Len(pre), RunEnd(i + Len(pre)) - 1)

\* new URL(rel, 'https://www.hltv.org').toString() for a relative reference
\* made of a path of unreserved characters and "/" (no scheme, no "//"
\* prefix, no dot segment, no character the URL parser would encode).
ResolveUrl(rel) ==
    LET origin == <<"h", "t", "t", "p", "s", ":", "/", "/", "w", "w", "w", ".",
                    "h", "l", "t", "v", ".", "o", "r", "g">>
    IN IF rel[1] = "/" THEN origin \o rel ELSE origin \o <<"/">> \o rel

\* s.replace(/\s+vs\s+$/, '')
StripDanglingVs(s) ==
    LET n == Len(s)
        \* the start of the run of white space that ends at j (j + 1 if none)
        RECURSIVE RunStart(_)
        RunStart(j) == IF j >= 1 /\ IsSpace(s[j]) THEN RunStart(j - 1) ELSE j + 1
        t == RunStart(n)              \* trailing white space is s[t..n]
    IN IF t <= n /\ t >= 3 /\ s[t - 2] = "v" /\ s[t - 1] = "s"
          /\ RunStart(t - 3) <= t - 3
       THEN SubSeq(s, 1, RunStart(t - 3) - 1)
       ELSE s

\* The uid of lines 180-182 with the identifier of the link ignored.
MatchUid_TimeOnly(start, matchRelUrl) ==
    <<"h", "l", "t", "v", "-">> \o NumStr(start)

\* The uid of lines 180-182 with the start time kept beside the identifier.
MatchUid_IdAndTime(start, matchRelUrl) ==
    LET idMatch == IF matchRelUrl = Undefined \/ matchRelUrl = <<>> THEN <<>>
                   ELSE MatchId(matchRelUrl)
    IN IF idMatch # <<>>
       THEN <<"h", "l", "t", "v", "-", "m", "a", "t", "c", "h", "-">> \o idMatch
            \o <<"-">> \o NumStr(start)
       ELSE <<"h", "l", "t", "v", "-">> \o NumStr(start)

\* The uid of lines 180-182.
MatchUid(start, matchRelUrl) ==
    LET idMatch == IF matchRelUrl = Undefined \/ matchRelUrl = <<>> THEN <<>>
                   ELSE MatchId(matchRelUrl)
    IN IF idMatch # <<>>
       THEN <<"h", "l", "t", "v", "-", "m", "a", "t", "c", "h", "-">> \o idMatch
       ELSE <<"h", "l", "t", "v", "-">> \o NumStr(start)

\* The record lines 175-189 push for a row whose data-unix is unixStr.
\* ord is not a field of the code's record: it is the position of the record
\* in the extraction order, kept to tell equal records apart.
RowEvent(tr, unixStr, currentEventName, teamLabelForSummary) ==
    LET start == Number(unixStr)
        team1 == trim(tr.team1)
        team2 == trim(tr.team2)
        matchRelUrl == tr.href
        hasUrl == matchRelUrl # Undefined /\ matchRelUrl # <<>>
        matchUrl == IF hasUrl THEN ResolveUrl(matchRelUrl) ELSE Undefined
        vs == (IF team1 # <<>> THEN team1 ELSE teamLabelForSummary)
              \o <<SP, "v", "s", SP>> \o team2
        summary == trim(StripDanglingVs(vs))
                   \o (IF currentEventName # <<>>
                       THEN <<SP, EMDASH, SP>> \o currentEventName ELSE <<>>)
        parts == (IF currentEventName # <<>>
                  THEN << <<"E", "v", "e", "n", "t", ":", SP>> \o currentEventName >>
                  ELSE <<>>)
                 \o (IF team1 # <<>> /\ team2 # <<>>
                     THEN << <<"M", "a", "t", "c", "h", ":", SP>> \o team1
                             \o <<SP, "v", "s", SP>> \o team2 >>
                     ELSE <<>>)
                 \o (IF hasUrl
                     THEN << <<"H", "L", "T", "V", ":", SP>> \o matchUrl >>
                     ELSE <<>>)
    IN [uid |-> MatchUid(start, matchRelUrl), start |-> start,
        team1 |-> team1, team2 |-> team2, summary |-> summary,
        description |-> Join(parts, <<LF>>), url |-> matchUrl, ord |-> 0]

\* Whether the callback of line 171 returns at line 174 without a record.
RowSkipped(tr) == tr.unix = Undefined \/ tr.unix = <<>>

\* $sib.find('tr.team-row').each(...) of one tbody.
RECURSIVE ScanRows(_, _, _, _)
ScanRows(rows, i, currentEventName, label) ==
    IF i > Len(rows) THEN <<>>
    ELSE (IF RowSkipped(rows[i]) THEN <<>>
          ELSE << RowEvent(rows[i], rows[i].unix, currentEventName, label) >>)
         \o ScanRows(rows, i + 1, currentEventName, label)

\* siblings.each(...) of one table, from child i on with the name carried so far.
RECURSIVE ScanSiblings(_, _, _, _)
ScanSiblings(siblings, i, currentEventName, label) ==
    IF i > Len(siblings) THEN <<>>
    ELSE IF siblings[i].tag = "thead"
    THEN LET name == trim(siblings[i].header)
         IN ScanSiblings(siblings, i + 1,
                         IF name # <<>> THEN name ELSE currentEventName, label)
    ELSE ScanRows(siblings[i].rows, 1, currentEventName, label)
         \o ScanSiblings(siblings, i + 1, currentEventName, label)

\* parseMatches with line 164 moved out of the loop over the tables: the
\* name is carried from one table into the next.
parseMatches_NoReset(html, teamLabelForSummary) ==
    LET RECURSIVE AllSiblings(_)
        AllSiblings(t) == IF t > Len(html) THEN <<>>
                          ELSE html[t] \o AllSiblings(t + 1)
        events == ScanSiblings(AllSiblings(1), 1, <<>>, teamLabelForSummary)
    IN [i \in 1..Len(events) |-> [events[i] EXCEPT !.ord = i]]

parseMatches(html, teamLabelForSummary) ==
    LET RECURSIVE Tables(_)
        Tables(t) == IF t > Len(html) THEN <<>>
                     ELSE ScanSiblings(html[t], 1, <<>>, teamLabelForSummary)
                          \o Tables(t + 1)
        events == Tables(1)
    IN [i \in 1..Len(events) |-> [events[i] EXCEPT !.ord = i]]

(***************************************************************************)
(* The feed handler of lines 201-228, after the page is fetched.           *)
(***************************************************************************)
\* parseInt(q, 10) of the duration parameter: a string, or Undefined when
\* the query has none (String(undefined) holds no digit).
parseInt10(q) ==
    LET lead == IF q = Undefined THEN {}
                ELSE {i \in 1..Len(q) : ~IsSpace(q[i])}
        from == IF lead = {} THEN 1
                ELSE CHOOSE i \in lead : \A j \in lead : i <= j
        t == IF q = Undefined \/ lead = {} THEN <<>> ELSE SubSeq(q, from, Len(q))
        signed == t # <<>> /\ t[1] \in {"-", "+"}
        ds == IF signed THEN Tail(t) ELSE t
        RECURSIVE RunEnd(_)
        RunEnd(i) == IF i <= Len(ds) /\ ds[i] \in DigitSet THEN RunEnd(i + 1) ELSE i
        n == RunEnd(1) - 1
        RECURSIVE Val(_)
        Val(i) == IF i = 0 THEN 0 ELSE 10 * Val(i - 1) + DigitVal(ds[i])
    IN IF n = 0 THEN NaN
       ELSE IF signed /\ t[1] = "-" THEN Num(-Val(n))
       ELSE Num(Val(n))

Max(a, b) == IF a >= b THEN a ELSE b

Min(a, b) == IF a <= b THEN a ELSE b

DEFAULT_MINUTES == 120

MAX_MINUTES == 24 * 60

\* Line 204: Math.max(1, Math.min(24 * 60, parseInt(q, 10) || 120)).
minutesOf(q) ==
    LET p == parseInt10(q)
    IN Max(1, Min(MAX_MINUTES, IF p.nan \/ p.v = 0 THEN DEFAULT_MINUTES ELSE p.v))

\* encodeURIComponent over the characters of the model: the unreserved ones
\* stand for themselves, the others become their UTF-8 bytes in hex.
encodeURIComponent(str) ==
    LET enc(c) == CASE c = SP -> <<"%", "2", "0">>
                    [] c = "," -> <<"%", "2", "C">>
                    [] c = ";" -> <<"%", "3", "B">>
                    [] c = "/" -> <<"%", "2", "F">>
                    [] c = BSL -> <<"%", "5", "C">>
                    [] OTHER -> <<c>>
        RECURSIVE Go(_, _)
        Go(lo, hi) ==
            IF lo > hi THEN <<>>
            ELSE IF lo = hi THEN enc(str[lo])
            ELSE Go(lo, (lo + hi) \div 2) \o Go((lo + hi) \div 2 + 1, hi)
    IN Go(1, Len(str))

\* Lines 205-206: the page of the team, the key of the cache.
TeamUrl(id, slug) ==
    LET teamSlug == IF slug = Undefined \/ slug = <<>>
                    THEN <<"t", "e", "a", "m">> ELSE slug
    IN <<"h", "t", "t", "p", "s", ":", "/", "/", "w", "w", "w", ".", "h", "l", "t",
         "v", ".", "o", "r", "g", "/", "t", "e", "a", "m", "/">>
       \o encodeURIComponent(id) \o <<"/">> \o encodeURIComponent(teamSlug)
       \o <<"#", "t", "a", "b", "-", "m", "a", "t", "c", "h", "e", "s", "B", "o", "x">>

\* s.split(c).filter(Boolean): the non-empty pieces of s between the c's.
SplitNonEmpty(s, c) ==
    LET cuts == {0, Len(s) + 1} \cup {i \in 1..Len(s) : s[i] = c}
        \* the first cut after position i
        NextCut(i) == CHOOSE j \in cuts : j > i /\ \A k \in cuts : k > i => j <= k
        RECURSIVE From(_)
        From(i) == IF i > Len(s) THEN <<>>
                   ELSE (IF NextCut(i) > i + 1
                         THEN <<SubSeq(s, i + 1, NextCut(i) - 1)>> ELSE <<>>)
                        \o From(NextCut(i))
    IN From(0)

\* Lines 214-219.  The url is the one of line 206, which new URL() always
\* parses; its pathname runs from the end of the origin to the "#".
CalNameOf(url) ==
    LET originLen == 20
        hash == CHOOSE i \in 1..Len(url) : url[i] = "#"
        pathname == SubSeq(url, originLen + 1, hash - 1)
        segs == SplitNonEmpty(pathname, "/")
        slugName == IF Len(segs) >= 3 THEN segs[3] ELSE <<>>
    IN <<"H", "L", "T", "V", SP, EMDASH, SP>> \o slugName

GRACE_MS == 5 * 60 * 1000

\* Line 211: the record with its end.
WithEnd(e, minutes) ==
    [uid |-> e.uid, start |-> e.start, team1 |-> e.team1, team2 |-> e.team2,
     summary |-> e.summary, description |-> e.description, url |-> e.url,
     ord |-> e.ord,
     end |-> IF e.start.nan THEN NaN ELSE Num(e.start.v + minutes * 60 * 1000)]

\* The filter of line 212 without the five minutes of grace.
KeepEvent_NoGrace(e, now) == ~e.end.nan /\ e.end.v >= now

\* The filter of line 212: a Date is truthy, a comparison with NaN is false.
KeepEvent(e, now) == ~e.end.nan /\ e.end.v >= now - GRACE_MS

\* Array.prototype.filter
RECURSIVE Filter(_, _, _)
Filter(events, i, now) ==
    IF i > Len(events) THEN <<>>
    ELSE (IF KeepEvent(events[i], now) THEN <<events[i]>> ELSE <<>>)
         \o Filter(events, i + 1, now)

\* The comparator of line 213 (both dates are valid once filtered).
CompareStart(a, b) == a.start.v - b.start.v

\* A sort that puts an event before the events of the same start.
SortByStart_TiesReversed(events) ==
    LET RECURSIVE Ins(_, _)
        Ins(sorted, e) ==
            IF sorted = <<>> THEN <<e>>
            ELSE IF CompareStart(sorted[Len(sorted)], e) < 0 THEN Append(sorted, e)
            ELSE Append(Ins(SubSeq(sorted, 1, Len(sorted) - 1), e), sorted[Len(sorted)])
        RECURSIVE Go(_, _)
        Go(sorted, i) == IF i > Len(events) THEN sorted
                         ELSE Go(Ins(sorted, events[i]), i + 1)
    IN Go(<<>>, 1)

\* Array.prototype.sort with the comparator of line 213: a stable sort
\* (ECMAScript 2019 on; the image runs Node 24).
SortByStart(events) ==
    LET RECURSIVE Ins(_, _)
        Ins(sorted, e) ==
            IF sorted = <<>> THEN <<e>>
            ELSE IF CompareStart(sorted[Len(sorted)], e) <= 0 THEN Append(sorted, e)
            ELSE Append(Ins(SubSeq(sorted, 1, Len(sorted) - 1), e), sorted[Len(sorted)])
        RECURSIVE Go(_, _)
        Go(sorted, i) == IF i > Len(events) THEN sorted
                         ELSE Go(Ins(sorted, events[i]), i + 1)
    IN Go(<<>>, 1)

\* Lines 208-213.
Upcoming(eventsRaw, minutes, now) ==
    SortByStart(Filter([i \in 1..Len(eventsRaw) |-> WithEnd(eventsRaw[i], minutes)],
                       1, now))

\* Lines 203-223 for a page that was fetched: what the handler computes on
\* the way to the body it sends.  now is Date.now() of line 209, which
\* new Date() of line 102 reads again in the same turn.
TeamFeed(id, slug, q, html, now) ==
    LET minutes == minutesOf(q)
        url == TeamUrl(id, slug)
        eventsRaw == parseMatches(html, <<>>)
        upcoming == Upcoming(eventsRaw, minutes, now)
        calName == CalNameOf(url)
    IN [minutes |-> minutes, url |-> url, eventsRaw |-> eventsRaw,
        upcoming |-> upcoming, calName |-> calName,
        ics |-> buildICS(upcoming, calName, now)]

(***************************************************************************)
(* Inputs of the pure pipelines.                                           *)
(***************************************************************************)
SeqsUpTo(S, n) == UNION {[1..k -> S] : k \in 0..n}

Rep(c, n) == [i \in 1..n |-> c]

\* While a pure pipeline is checked the server does nothing.
ServerIdle ==
    /\ clock = 0
    /\ CACHE = <<>>
    /\ FLARESOLVERR_SESSION = Null
    /\ startup = "off"
    /\ reqs = <<>>
    /\ handlers = <<>>
    /\ exited = FALSE
    /\ service = <<>>
    /\ writes = <<>>

NotDone == [done |-> FALSE]

Done(v) == [done |-> TRUE, val |-> v]

(***************************************************************************)
(* SpecEscape: icsEscape on every short text over the characters the       *)
(* escaping rule names, an ordinary "n" and an ordinary "a".               *)
(***************************************************************************)
MaxEscLen == 4

EscAlphabet == {BSL, ",", ";", LF, "n", "a"}

InitEscape ==
    /\ ServerIdle
    /\ pin \in {[kind |-> "escape", text |-> t] : t \in SeqsUpTo(EscAlphabet, MaxEscLen)}
    /\ pout = NotDone

DoEscape ==
    /\ pin.kind = "escape" /\ ~pout.done
    /\ pout' = Done(icsEscape(pin.text))
    /\ UNCHANGED <<pin, serverVars>>

SpecEscape == InitEscape /\ [][DoEscape]_vars

(***************************************************************************)
(* SpecFold: foldIcsLine on content lines of every length up to            *)
(* MaxLineLen.  A content line holds no CR and no LF (icsEscape leaves     *)
(* none in what buildICS folds).                                           *)
(***************************************************************************)
MaxLineLen == 160

FoldAlphabet == <<"a", SP, BSL, "b", ",">>

\* The line of length n whose i-th character is picked by stride a, offset b.
PatternLine(n, a, b) ==
    [i \in 1..n |-> FoldAlphabet[((a * i + b) % Len(FoldAlphabet)) + 1]]

FoldLines == {PatternLine(n, a, b) : n \in 0..MaxLineLen, a \in {0, 1}, b \in {0, 1}}

InitFold ==
    /\ ServerIdle
    /\ pin \in {[kind |-> "fold", line |-> l] : l \in FoldLines}
    /\ pout = NotDone

DoFold ==
    /\ pin.kind = "fold" /\ ~pout.done
    /\ pout' = Done(foldIcsLine(pin.line))
    /\ UNCHANGED <<pin, serverVars>>

SpecFold == InitFold /\ [][DoFold]_vars

(***************************************************************************)
(* SpecDuration: line 204 on every short value of the duration parameter.  *)
(***************************************************************************)
MaxQueryLen == 5

QueryAlphabet == {"0", "1", "4", "9", "-", "a", SP}

Queries == {Undefined} \cup SeqsUpTo(QueryAlphabet, MaxQueryLen)

InitDuration ==
    /\ ServerIdle
    /\ pin \in {[kind |-> "duration", q |-> q] : q \in Queries}
    /\ pout = NotDone

DoMinutes ==
    /\ pin.kind = "duration" /\ ~pout.done
    /\ pout' = Done(minutesOf(pin.q))
    /\ UNCHANGED <<pin, serverVars>>

SpecDuration == InitDuration /\ [][DoMinutes]_vars

(***************************************************************************)
(* SpecExtract: parseMatches on one-row pages over every short data-unix   *)
(* value, and on pages of every shape of up to MaxNodes tables, header     *)
(* groups and body groups.                                                 *)
(***************************************************************************)
MaxUnixLen == 2

MaxNodes == 4

UnixAlphabet == {"1", "7", "-", "x", SP}

UnixStrs == {Undefined, <<"8", "6", "4", "0", "0", "0", "0", "0">>}
            \cup SeqsUpTo(UnixAlphabet, MaxUnixLen)

Hrefs ==
    { Undefined, <<>>,
      <<"/", "m", "a", "t", "c", "h", "e", "s", "/", "1", "2", "3", "4", "5", "/",
        "a", "l", "p", "h", "a", "-", "v", "s", "-", "b", "e", "t", "a">>,
      <<"/", "m", "a", "t", "c", "h", "e", "s", "/", "1", "2", "3", "4", "5">>,
      <<"/", "m", "a", "t", "c", "h", "e", "s", "/", "x", "/", "1", "2", "/">>,
      <<"/", "m", "a", "t", "c", "h", "e", "s", "/", "1", "2", "a", "/", "3", "/">>,
      <<"/", "a", "/", "m", "a", "t", "c", "h", "e", "s", "/", "7", "/", "b">>,
      <<"m", "a", "t", "c", "h", "e", "s", "/", "7", "7", "/", "b">> }

Team1Texts == { <<>>, <<"A", "l", "p", "h", "a">>, <<SP, "A", SP>> }

Team2Texts == { <<>>, <<"B", "e", "t", "a">>, <<SP>> }

HeaderTexts ==
    { <<>>, <<"M", "a", "j", "o", "r", SP, "F", "i", "n", "a", "l">>, <<SP, "E", "2", SP>> }

Rows == [unix : UnixStrs, team1 : Team1Texts, team2 : Team2Texts, href : Hrefs]

Thead(h) == [tag |-> "thead", header |-> h, rows |-> <<>>]

Tbody(rs) == [tag |-> "tbody", header |-> <<>>, rows |-> rs]

GoodRow ==
    [unix |-> <<"7">>, team1 |-> <<"A", "l", "p", "h", "a">>,
     team2 |-> <<"B", "e", "t", "a">>, href |-> Undefined]

NoTimeRow == [GoodRow EXCEPT !.unix = Undefined]

BadTimeRow == [GoodRow EXCEPT !.unix = <<"x">>]

\* The nodes a page of a given shape is made of; "table" opens a new table.
ShapeNodes ==
    {[tag |-> "table", header |-> <<>>, rows |-> <<>>]}
    \cup {Thead(h) : h \in HeaderTexts}
    \cup {Tbody(rs) : rs \in {<<>>, <<GoodRow>>, <<NoTimeRow, GoodRow>>,
                              <<BadTimeRow, GoodRow>>}}

\* The page whose tables and groups are the nodes, in document order.
RECURSIVE PageOf(_)
PageOf(nodes) ==
    IF nodes = <<>> THEN <<>>
    ELSE LET rest == PageOf(SubSeq(nodes, 1, Len(nodes) - 1))
             last == nodes[Len(nodes)]
         IN IF last.tag = "table" THEN Append(rest, <<>>)
            ELSE [rest EXCEPT ![Len(rest)] = Append(@, last)]

Shapes == {ns \in SeqsUpTo(ShapeNodes, MaxNodes) : ns # <<>> => ns[1].tag = "table"}

\* Rows of matches with a link: the same identifier under two links, and
\* the identifier with no slash after it.
PairHrefs ==
    { <<"/", "m", "a", "t", "c", "h", "e", "s", "/", "1", "2", "3", "4", "5", "/",
        "a", "l", "p", "h", "a", "-", "v", "s", "-", "b", "e", "t", "a">>,
      <<"/", "m", "a", "t", "c", "h", "e", "s", "/", "1", "2", "3", "4", "5", "/", "x">>,
      <<"/", "m", "a", "t", "c", "h", "e", "s", "/", "1", "2", "3", "4", "5">> }

PairRows ==
    [unix : {<<"7">>, <<"1", "7">>},
     team1 : {<<>>, <<"A", "l", "p", "h", "a">>},
     team2 : {<<>>, <<"B", "e", "t", "a">>},
     href : PairHrefs]

ExtractPages ==
    {<< <<Thead(h), Tbody(<<r>>)>> >> : h \in HeaderTexts, r \in Rows}
    \cup {PageOf(ns) : ns \in Shapes}
    \cup {<< <<Tbody(<<r1, r2>>)>> >> : r1 \in PairRows, r2 \in PairRows}

InitExtract ==
    /\ ServerIdle
    /\ pin \in {[kind |-> "extract", html |-> d] : d \in ExtractPages}
    /\ pout = NotDone

DoExtract ==
    /\ pin.kind = "extract" /\ ~pout.done
    /\ pout' = Done(parseMatches(pin.html, <<>>))
    /\ UNCHANGED <<pin, serverVars>>

SpecExtract == InitExtract /\ [][DoExtract]_vars

\* The rows of a page, in document order (every tr.team-row of every tbody).
PageRows(html) ==
    LET RECURSIVE Groups(_, _)
        Groups(tbl, i) == IF i > Len(tbl) THEN <<>>
                          ELSE tbl[i].rows \o Groups(tbl, i + 1)
        RECURSIVE Tables(_)
        Tables(t) == IF t > Len(html) THEN <<>>
                     ELSE Groups(html[t], 1) \o Tables(t + 1)
    IN Tables(1)

(***************************************************************************)
(* SpecFeed: the handler on a fetched page of up to MaxFeedRows rows whose *)
(* start times lie around the edge of the drop rule.                       *)
(***************************************************************************)
MaxFeedRows == 3

MaxSlugLen == 56

\* Date.now() of line 209.
FeedNow0 == 2 * MS_PER_DAY

FeedNows == {FeedNow0, FeedNow0 + 1}

\* The start whose end, 120 minutes later, is exactly FeedNow0 - 5 minutes.
EdgeStart == FeedNow0 - GRACE_MS - DEFAULT_MINUTES * 60 * 1000

FeedStarts == {EdgeStart - 1, EdgeStart, EdgeStart + 1}

FeedRows ==
    {[GoodRow EXCEPT !.unix = IntStr(t),
                     !.href = <<"/", "m", "a", "t", "c", "h", "e", "s", "/", "1", "2",
                                "3", "4", "5", "/", "a", "l", "p", "h", "a", "-", "v",
                                "s", "-", "b", "e", "t", "a">>] : t \in FeedStarts}
    \cup {BadTimeRow}

FeedPages ==
    {<< <<Thead(<<"M", "a", "j", "o", "r", SP, "F", "i", "n", "a", "l">>), Tbody(rs)>> >> :
        rs \in SeqsUpTo(FeedRows, MaxFeedRows)}

FeedQueries == {Undefined, <<"1">>, <<"1", "4", "4", "0">>}

FeedSlugs == {Undefined, Rep("a", MaxSlugLen - 1), Rep("a", MaxSlugLen)}

InitFeed ==
    /\ ServerIdle
    /\ pin \in {[kind |-> "feed", id |-> <<"6", "6", "6", "7">>, slug |-> sl, q |-> q,
                 html |-> d, now |-> t] :
                sl \in FeedSlugs, q \in FeedQueries, d \in FeedPages, t \in FeedNows}
    /\ pout = NotDone

DoFeed ==
    /\ pin.kind = "feed" /\ ~pout.done
    /\ pout' = Done(TeamFeed(pin.id, pin.slug, pin.q, pin.html, pin.now))
    /\ UNCHANGED <<pin, serverVars>>

SpecFeed == InitFeed /\ [][DoFeed]_vars

(***************************************************************************)
(* Spec: the server.  The listen callback opens the bypass-service         *)
(* session; feed requests run concurrently, each suspended only at the     *)
(* await of its request.get (line 138); the clock advances at any time.    *)
(***************************************************************************)
MaxReqs == 2

MaxPeriods == 1

CACHE_TTL_MS == 60 * 60 * 1000

\* Date.now() when the process starts.
ServerNow0 == FeedNow0

\* The readings of the clock: the start, the millisecond before the first
\* entry made at the start grows stale, and every multiple of the TTL after
\* the start.
Times ==
    {ServerNow0, ServerNow0 + CACHE_TTL_MS - 1}
    \cup {ServerNow0 + k * CACHE_TTL_MS : k \in 1..MaxPeriods}

ReqIds == 1..MaxReqs

SessionIds == {"s1"}

\* The teams asked for: /team/6667/faze.ics and /team/6665.ics
Teams == { [id |-> <<"6", "6", "6", "7">>, slug |-> <<"f", "a", "z", "e">>],
           [id |-> <<"6", "6", "6", "5">>, slug |-> Undefined] }

ServerQueries == {Undefined}

\* The pages the origin serves: one upcoming match, or none.
ServerPages ==
    << << <<Thead(<<"M", "a", "j", "o", "r", SP, "F", "i", "n", "a", "l">>),
           Tbody(<< [GoodRow EXCEPT !.unix = IntStr(ServerNow0 + MS_PER_DAY)] >>)>> >>,
       << <<Tbody(<<>>)>> >> >>

\* What comes back from the POST of line 138: the call threw ("transport":
\* fetch rejected, or res.json() did), res.ok is false ("http_error"), the
\* envelope's status is not "ok" ("not_ok"), its status is "ok" and it holds
\* no solution ("no_solution"), or its status is "ok" and its
\* solution.response is page number `page` of ServerPages ("ok").  An
\* envelope that is not ok may hold a page as well (page 0: none).
OutcomeKinds == {"transport", "http_error", "not_ok", "no_solution", "ok"}

Outcomes ==
    {[kind |-> k, page |-> 0] : k \in {"transport", "http_error", "no_solution"}}
    \cup {[kind |-> "not_ok", page |-> p] : p \in 0..Len(ServerPages)}
    \cup {[kind |-> "ok", page |-> p] : p \in 1..Len(ServerPages)}

\* What is kept of a response: [status, ctype, error].  Its body is sent in
\* the step that completes the request (ResponseBody).
NoResponse == [status |-> 0, ctype |-> "none", error |-> "none"]

\* A request before it arrives.  now and session are the locals of
\* fetchWithCache (lines 125 and 135), which end with the call.  hit, gets,
\* sets, outcome and page record what the request did: whether line 126
\* returned the cached body, how many request.get it sent, how many CACHE.set
\* it made, what its request.get came back with, and the page its feed was
\* built from.  Requests are numbered in the order they arrive.
IdleReq ==
    [pc |-> "idle", id |-> <<>>, slug |-> <<>>, q |-> <<>>, url |-> <<>>, now |-> 0,
     session |-> Null, hit |-> FALSE, gets |-> 0, sets |-> 0, outcome |-> "none",
     page |-> 0, resp |-> NoResponse]

\* The signals the process handles (lines 235 and 241).
Signals == {"SIGTERM", "SIGINT"}

Init ==
    /\ clock = ServerNow0
    /\ CACHE = <<>>
    /\ FLARESOLVERR_SESSION = Null
    /\ startup = "boot"
    /\ reqs = [r \in ReqIds |-> IdleReq]
    /\ handlers = [sig \in Signals |-> "idle"]
    /\ exited = FALSE
    /\ service = [created |-> {}, destroySent |-> {}]
    /\ writes = <<>>
    /\ pin = [kind |-> "server"]
    /\ pout = NotDone

Tick ==
    /\ ~exited
    /\ \E t \in Times : t > clock /\ clock' = t
    /\ UNCHANGED <<CACHE, FLARESOLVERR_SESSION, startup, reqs, lifeVars, pureVars>>

\* Lines 230-232 up to the await of line 25: sessions.create is sent.
Listen ==
    /\ ~exited
    /\ startup = "boot"
    /\ startup' = "creating"
    /\ UNCHANGED <<clock, CACHE, FLARESOLVERR_SESSION, reqs, lifeVars, pureVars>>


\* Lines 32-35: the bypass service made session s and answered status "ok"
\* with it.
CreateSessionOk(s) ==
    /\ ~exited
    /\ startup = "creating"
    /\ FLARESOLVERR_SESSION' = s
    /\ writes' = Append(writes, "create")
    /\ service' = [service EXCEPT !.created = @ \cup {s}]
    /\ startup' = "ready"
    /\ UNCHANGED <<clock, CACHE, reqs, handlers, exited, pureVars>>

\* Lines 36-41: the service made no session and answered another status, or
\* the call threw; logged only.
CreateSessionFail ==
    /\ ~exited
    /\ startup = "creating"
    /\ startup' = "ready"
    /\ UNCHANGED <<clock, CACHE, FLARESOLVERR_SESSION, reqs, lifeVars, pureVars>>

\* The condition of line 126 with the entry of age exactly the TTL kept.
CacheFresh_Inclusive(cache, url, now) ==
    url \in DOMAIN cache /\ now - cache[url].ts <= CACHE_TTL_MS

\* fetchWithCache without line 126: the cache is never read.
CacheFresh_Never(cache, url, now) == FALSE

\* The condition of line 126: cached && now - cached.ts < CACHE_TTL_MS.
CacheFresh(cache, url, now) ==
    url \in DOMAIN cache /\ now - cache[url].ts < CACHE_TTL_MS

\* Line 154 with the body stored under every key of the cache as well.
CacheSet_EveryKey(cache, url, ts, body) ==
    [u \in DOMAIN cache \cup {url} |->
        IF u = url THEN [ts |-> ts, body |-> body] ELSE [cache[u] EXCEPT !.body = body]]

\* Line 154: CACHE.set(url, { ts: now, body: text }).
CacheSet(cache, url, ts, body) ==
    [u \in DOMAIN cache \cup {url} |->
        IF u = url THEN [ts |-> ts, body |-> body] ELSE cache[u]]

\* Lines 146-153 without the check of the envelope's status (lines 149-151).
Throws_NoStatusCheck(o) == o.kind \notin {"ok", "not_ok"} \/ o.page = 0

\* Whether lines 138-153 throw on what came back.
Throws(o) == o.kind # "ok"

\* Lines 221-223: the status and the content type of the feed.
FeedResponse ==
    [status |-> 200, ctype |-> "text/calendar; charset=utf-8", error |-> "none"]

\* Lines 224-227: res.status(502).json({ error: ... }).
ErrorResponse(kind) ==
    [status |-> 502, ctype |-> "application/json", error |-> kind]

\* The body sent to request r when it completes at the clock's reading now
\* (line 209): the ICS text of line 220 for a 200, and no ICS text (the JSON
\* of line 226) otherwise.
ResponseBody(r, now) ==
    IF r.resp.status = 200
    THEN TeamFeed(r.id, r.slug, r.q, ServerPages[r.page], now).ics
    ELSE <<>>

\* Lines 134-136 with the session never put into the payload.
PayloadSession_Never(token) == Null

\* Lines 134-136: the session field of the payload, Null when it has none.
PayloadSession(token) == IF token # Null THEN token ELSE Null

\* A request arrives and line 126 returns the cached body: the handler runs
\* to its response without suspending on the network.
RequestHit(r, team, q) ==
    LET url == TeamUrl(team.id, team.slug)
        arrived == [reqs[r] EXCEPT !.id = team.id, !.slug = team.slug, !.q = q,
                                   !.url = url]
    IN /\ ~exited
       /\ startup \in {"creating", "ready"}
       /\ reqs[r].pc = "idle"
       /\ \A p \in ReqIds : p < r => reqs[p].pc # "idle"
       /\ CacheFresh(CACHE, url, clock)
       /\ reqs' = [reqs EXCEPT ![r] =
                     [arrived EXCEPT !.pc = "done", !.hit = TRUE,
                                     !.page = CACHE[url].body,
                                     !.resp = FeedResponse]]
       /\ UNCHANGED <<clock, CACHE, FLARESOLVERR_SESSION, startup, lifeVars, pureVars>>

\* A request arrives and misses the cache: lines 128-138 send request.get,
\* with the session when there is one, and the handler awaits the answer.
RequestMiss(r, team, q) ==
    LET url == TeamUrl(team.id, team.slug)
    IN /\ ~exited
       /\ startup \in {"creating", "ready"}
       /\ reqs[r].pc = "idle"
       /\ \A p \in ReqIds : p < r => reqs[p].pc # "idle"
       /\ ~CacheFresh(CACHE, url, clock)
       /\ reqs' = [reqs EXCEPT ![r] =
                     [@ EXCEPT !.pc = "fetching", !.id = team.id, !.slug = team.slug,
                               !.q = q, !.url = url, !.now = clock,
                               !.session = PayloadSession(FLARESOLVERR_SESSION),
                               !.gets = 1]]
       /\ UNCHANGED <<clock, CACHE, FLARESOLVERR_SESSION, startup, lifeVars, pureVars>>

\* The answer is a page: lines 153-155 store it under the time line 125
\* read, and lines 208-223 send the feed.
FetchOk(r, o) ==
    /\ ~exited
    /\ reqs[r].pc = "fetching"
    /\ ~Throws(o)
    /\ CACHE' = CacheSet(CACHE, reqs[r].url, reqs[r].now, o.page)
    /\ reqs' = [reqs EXCEPT ![r] =
                  [@ EXCEPT !.pc = "done", !.sets = @ + 1, !.outcome = o.kind,
                            !.page = o.page, !.now = 0, !.session = Null,
                            !.resp = FeedResponse]]
    /\ UNCHANGED <<clock, FLARESOLVERR_SESSION, startup, lifeVars, pureVars>>

\* The retrieval failed: fetchWithCache throws and line 226 answers.
FetchFail(r, o) ==
    /\ ~exited
    /\ reqs[r].pc = "fetching"
    /\ Throws(o)
    /\ reqs' = [reqs EXCEPT ![r] =
                  [@ EXCEPT !.pc = "done", !.outcome = o.kind,
                            !.now = 0, !.session = Null,
                            !.resp = ErrorResponse(o.kind)]]
    /\ UNCHANGED <<clock, CACHE, FLARESOLVERR_SESSION, startup, lifeVars, pureVars>>

\* process.exit(0): the process is gone, and with it its memory and the
\* requests it had not answered.
ProcessExit ==
    /\ exited' = TRUE
    /\ CACHE' = <<>>
    /\ reqs' = [r \in ReqIds |-> IdleReq]

\* Lines 238 and 244 with the exit left out when the teardown call threw.
ExitsAfter_OnlyOnSuccess(outcome) == outcome \in {"skipped", "returned"}

\* Lines 237-238 and 243-244: process.exit(0) follows the await whatever
\* destroyFlareSolverrSession did: returned at line 45 ("skipped"), after
\* line 56 ("returned"), or from its catch ("threw").
ExitsAfter(outcome) == outcome \in {"skipped", "returned", "threw"}

\* destroyFlareSolverrSession without line 45.
SkipsDestroy_Never(token) == FALSE

\* Line 45: if (!FLARESOLVERR_SESSION) return;
SkipsDestroy(token) == token = Null

\* The sessions the bypass service may have made for a sessions.create whose
\* answer the process has not received: none, or one.
InFlightSessions(phase) ==
    IF phase = "creating" THEN {{}} \cup {{s} : s \in SessionIds} ELSE {{}}

\* A signal arrives and there is no session: the handler passes line 45 and
\* exits, with no suspension on the network.  When the sessions.create of
\* line 25 is still in flight, the service has carried it out or has not.
SignalNoSession(sig) ==
    /\ ~exited
    /\ handlers[sig] = "idle"
    /\ SkipsDestroy(FLARESOLVERR_SESSION)
    /\ ExitsAfter("skipped")
    /\ handlers' = [handlers EXCEPT ![sig] = "exited"]
    /\ \E made \in InFlightSessions(startup) :
          service' = [service EXCEPT !.created = @ \cup made]
    /\ ProcessExit
    /\ UNCHANGED <<clock, FLARESOLVERR_SESSION, startup, writes, pureVars>>

\* A signal arrives and there is a session: lines 46-54 send
\* sessions.destroy for it, and the handler awaits the answer.
SignalDestroy(sig) ==
    /\ ~exited
    /\ handlers[sig] = "idle"
    /\ ~SkipsDestroy(FLARESOLVERR_SESSION)
    /\ handlers' = [handlers EXCEPT ![sig] = "destroying"]
    /\ service' = [service EXCEPT !.destroySent = @ \cup {FLARESOLVERR_SESSION}]
    /\ UNCHANGED <<clock, CACHE, FLARESOLVERR_SESSION, startup, reqs, exited, writes,
                   pureVars>>

\* The fetch of line 47 resolved (with any HTTP status): lines 55-56 clear
\* the token, and line 238 or 244 exits.  The continuation runs to the exit
\* on the microtask queue, before any other callback of the event loop.
DestroyReturn(sig) ==
    /\ ~exited
    /\ handlers[sig] = "destroying"
    /\ ExitsAfter("returned")
    /\ FLARESOLVERR_SESSION' = Null
    /\ writes' = Append(writes, "destroy")
    /\ handlers' = [handlers EXCEPT ![sig] = "exited"]
    /\ ProcessExit
    /\ UNCHANGED <<clock, startup, service, pureVars>>

\* The fetch of line 47 rejected (the service is unreachable, or the
\* runtime gave up waiting for its answer): lines 57-59 log, the token stays
\* as it is, and line 238 or 244 exits.
DestroyThrow(sig) ==
    /\ ~exited
    /\ handlers[sig] = "destroying"
    /\ IF ExitsAfter("threw")
       THEN /\ handlers' = [handlers EXCEPT ![sig] = "exited"]
            /\ ProcessExit
       ELSE /\ handlers' = [handlers EXCEPT ![sig] = "returned"]
            /\ UNCHANGED <<CACHE, reqs, exited>>
    /\ UNCHANGED <<clock, FLARESOLVERR_SESSION, startup, service, writes, pureVars>>

Next ==
    \/ Tick
    \/ Listen
    \/ \E s \in SessionIds : CreateSessionOk(s)
    \/ CreateSessionFail
    \/ \E r \in ReqIds, team \in Teams, q \in ServerQueries : RequestHit(r, team, q)
    \/ \E r \in ReqIds, team \in Teams, q \in ServerQueries : RequestMiss(r, team, q)
    \/ \E r \in ReqIds, o \in Outcomes : FetchOk(r, o)
    \/ \E r \in ReqIds, o \in Outcomes : FetchFail(r, o)
    \/ \E sig \in Signals : SignalNoSession(sig)
    \/ \E sig \in Signals : SignalDestroy(sig)
    \/ \E sig \in Signals : DestroyReturn(sig)
    \/ \E sig \in Signals : DestroyThrow(sig)

Spec == Init /\ [][Next]_vars

\* The server at one reading of the clock: no step of the startup, of the
\* shutdown or of the session reads the clock, and the code sets no timer.
NextLive ==
    \/ Listen
    \/ \E s \in SessionIds : CreateSessionOk(s)
    \/ CreateSessionFail
    \/ \E r \in ReqIds, team \in Teams, q \in ServerQueries : RequestHit(r, team, q)
    \/ \E r \in ReqIds, team \in Teams, q \in ServerQueries : RequestMiss(r, team, q)
    \/ \E r \in ReqIds, o \in Outcomes : FetchOk(r, o)
    \/ \E r \in ReqIds, o \in Outcomes : FetchFail(r, o)
    \/ \E sig \in Signals : SignalNoSession(sig)
    \/ \E sig \in Signals : SignalDestroy(sig)
    \/ \E sig \in Signals : DestroyReturn(sig)
    \/ \E sig \in Signals : DestroyThrow(sig)

\* The fetch of line 47 settles: the runtime's fetch resolves when the
\* answer's headers arrive and rejects when the connection fails or no
\* answer comes in time, and the event loop then runs the continuation.
SpecLive ==
    /\ Init
    /\ [][NextLive]_vars
    /\ WF_vars(\E sig \in Signals : DestroyReturn(sig) \/ DestroyThrow(sig))

(***************************************************************************)
(* The claims.                                                             *)
(***************************************************************************)
FailureKinds == {"transport", "http_error", "not_ok"}

\* C1. Stale-entry invisibility: when a request arrives, fetchWithCache
\* returns the cached body (and sends nothing) only if the url has an entry
\* and now - fetchedAt < 60 minutes; without an entry, or with one of age 60
\* minutes or more, it sends one request.get instead.
C1_StaleEntryInvisible ==
    [][\A r \in ReqIds :
        (reqs[r].pc = "idle" /\ reqs'[r].pc # "idle") =>
            LET url == reqs'[r].url
                young == url \in DOMAIN CACHE
                         /\ clock - CACHE[url].ts < 60 * 60 * 1000
            IN IF young
               THEN /\ reqs'[r].pc = "done" /\ reqs'[r].hit /\ reqs'[r].gets = 0
                    /\ reqs'[r].page = CACHE[url].body
                    /\ reqs'[r].resp.status = 200
               ELSE /\ reqs'[r].pc = "fetching" /\ ~reqs'[r].hit
                    /\ reqs'[r].gets = 1]_vars

\* C1 witness: a request found an entry of age exactly 60 minutes and is
\* fetching the page again.
C1_Witness ==
    \E r \in ReqIds :
        /\ reqs[r].pc = "fetching"
        /\ reqs[r].url \in DOMAIN CACHE
        /\ reqs[r].now - CACHE[reqs[r].url].ts = 60 * 60 * 1000

\* C2. When the retrieval of a feed request fails (the call threw, a
\* non-success HTTP status, an envelope that is not "ok"), the request is
\* answered 502 with a JSON error message and no ICS body, and the step
\* leaves the cache as it was: the failing request makes no CACHE.set.
C2_FailedRetrieval ==
    [][\A r \in ReqIds :
        (reqs[r].pc = "fetching" /\ reqs'[r].pc = "done"
         /\ reqs'[r].outcome \in FailureKinds) =>
            /\ CACHE' = CACHE
            /\ reqs'[r].sets = 0
            /\ reqs'[r].resp.status = 502
            /\ reqs'[r].resp.ctype = "application/json"
            /\ reqs'[r].resp.error # "none"
            /\ ResponseBody(reqs'[r], clock) = <<>>]_vars

\* C2 witness: the origin fetch came back with HTTP 500; the request got its
\* 502 and the cache holds nothing for its url.
C2_Witness ==
    \E r \in ReqIds :
        /\ reqs[r].pc = "done"
        /\ reqs[r].outcome = "http_error"
        /\ reqs[r].resp.status = 502
        /\ reqs[r].url \notin DOMAIN CACHE

LinkIds(href) ==
    IF href = Undefined THEN {}
    ELSE {d \in {SubSeq(href, i, j) : i \in 1..Len(href), j \in 1..Len(href)} :
            /\ d # <<>>
            /\ \A k \in 1..Len(d) : d[k] \in DigitSet
            /\ \E i \in 1..Len(href) :
                StartsWithAt(href, i, <<"/", "m", "a", "t", "c", "h", "e", "s", "/">>
                                      \o d \o <<"/">>)}

\* The rows parseMatches is to emit a record for: those with a non-empty
\* data-unix attribute.
MarkedRows(html) ==
    SelectSeq(PageRows(html), LAMBDA tr : tr.unix # Undefined /\ tr.unix # <<>>)

\* C4, as claimed: the uid of a record is "match-<id>" when its link carries
\* an identifier, and "match-<epochMillis>" of its start otherwise.
C4_UidAsClaimed ==
    (pin.kind = "extract" /\ pout.done) =>
        LET rows == MarkedRows(pin.html)
        IN /\ Len(pout.val) = Len(rows)
           /\ \A i \in 1..Len(rows) :
                LET ids == LinkIds(rows[i].href)
                IN IF ids # {}
                   THEN \E d \in ids : pout.val[i].uid = <<"m", "a", "t", "c", "h", "-">> \o d
                   ELSE pout.val[i].uid
                        = <<"m", "a", "t", "c", "h", "-">> \o NumStr(pout.val[i].start)

\* C4, amended: the uid of a record is "hltv-match-<digits>" when its link
\* holds "/matches/<digits>/", and otherwise "hltv-" followed by
\* String(start.getTime()): the epoch milliseconds of its start, "NaN" when
\* the marker of the row is no number.
C4_UidDerivation ==
    (pin.kind = "extract" /\ pout.done) =>
        LET rows == MarkedRows(pin.html)
        IN /\ Len(pout.val) = Len(rows)
           /\ \A i \in 1..Len(rows) :
                LET ids == LinkIds(rows[i].href)
                    millis == IF Number(rows[i].unix).nan THEN <<"N", "a", "N">>
                              ELSE IntStr(Number(rows[i].unix).v)
                IN IF ids # {}
                   THEN \E d \in ids :
                          pout.val[i].uid
                          = <<"h", "l", "t", "v", "-", "m", "a", "t", "c", "h", "-">> \o d
                   ELSE pout.val[i].uid = <<"h", "l", "t", "v", "-">> \o millis

\* C4 witness: the row of the link /matches/12345/alpha-vs-beta was given
\* the uid hltv-match-12345.
C4_Witness ==
    /\ pin.kind = "extract" /\ pout.done
    /\ Len(pout.val) = 1
    /\ MarkedRows(pin.html)[1].href
       = <<"/", "m", "a", "t", "c", "h", "e", "s", "/", "1", "2", "3", "4", "5", "/",
           "a", "l", "p", "h", "a", "-", "v", "s", "-", "b", "e", "t", "a">>
    /\ pout.val[1].uid
       = <<"h", "l", "t", "v", "-", "m", "a", "t", "c", "h", "-", "1", "2", "3", "4", "5">>

\* C5. Every record the extractor emits has a valid start instant: a row
\* whose marker is missing or is no number yields no record.
C5_ValidStart ==
    (pin.kind = "extract" /\ pout.done) =>
        /\ \A i \in 1..Len(pout.val) : ~pout.val[i].start.nan
        /\ Len(pout.val)
           = Len(SelectSeq(PageRows(pin.html),
                           LAMBDA tr : /\ tr.unix # Undefined
                                       /\ tr.unix # <<>>
                                       /\ ~Number(tr.unix).nan))

\* C6. Drop rule: with end = start + minutes, the final feed holds exactly
\* the extracted records whose end >= now - 5 minutes, each once and
\* unchanged but for its end.
C6_DropRule ==
    (pin.kind = "feed" /\ pout.done) =>
        LET raw == pout.val.eventsRaw
            up == pout.val.upcoming
            keep == {i \in 1..Len(raw) :
                        /\ ~raw[i].start.nan
                        /\ raw[i].start.v + pout.val.minutes * 60000
                           >= pin.now - 5 * 60000}
        IN /\ {up[k].ord : k \in 1..Len(up)} = keep
           /\ Len(up) = Cardinality(keep)
           /\ \A k \in 1..Len(up) :
                LET e == raw[up[k].ord]
                IN /\ up[k].uid = e.uid /\ up[k].start = e.start
                   /\ up[k].summary = e.summary /\ up[k].description = e.description
                   /\ up[k].url = e.url
                   /\ up[k].end = Num(e.start.v + pout.val.minutes * 60000)

\* C6 witness: of three records, one ending a millisecond before the edge,
\* one ending exactly five minutes before now and one with no valid time,
\* the feed holds the second alone.
C6_Witness ==
    /\ pin.kind = "feed" /\ pout.done
    /\ Len(pout.val.eventsRaw) = 3
    /\ pout.val.eventsRaw[3].start.nan
    /\ Len(pout.val.upcoming) = 1
    /\ pout.val.eventsRaw[1].start.v + pout.val.minutes * 60000 = pin.now - 5 * 60000 - 1
    /\ pout.val.upcoming[1].ord = 2
    /\ pout.val.upcoming[1].end.v = pin.now - 5 * 60000

\* The lengths of the physical lines of a document: of the stretches of text
\* between consecutive CR LF terminators.
PhysicalLineLens(doc) ==
    LET breaks == {i \in 1..(Len(doc) - 1) : doc[i] = CR /\ doc[i + 1] = LF}
        starts == {1} \cup {b + 2 : b \in breaks}
        EndOf(st) == LET later == {b \in breaks : b >= st}
                     IN IF later = {} THEN Len(doc)
                        ELSE (CHOOSE b \in later : \A c \in later : b <= c) - 1
    IN {EndOf(st) - st + 1 : st \in starts}

\* C7. No physical line of the document buildICS produces is longer than 75
\* characters.
C7_NoLongLine ==
    (pin.kind = "feed" /\ pout.done) =>
        \A n \in PhysicalLineLens(pout.val.ics) : n <= 75

\* A folded line with every CR LF SP removed, computed by halves of the
\* places where one starts.
Unfold(s) ==
    LET at == {i \in 1..(Len(s) - 2) : s[i] = CR /\ s[i + 1] = LF /\ s[i + 2] = SP}
        \* the text from position lo up to position hi
        RECURSIVE Go(_, _)
        Go(lo, hi) ==
            LET in == {i \in at : lo <= i /\ i <= hi}
            IN IF in = {} THEN SubSeq(s, lo, hi)
               ELSE LET i == CHOOSE x \in in : \A y \in in : x <= y
                    IN SubSeq(s, lo, i - 1) \o Go(i + 3, hi)
    IN Go(1, Len(s))

\* C8. Folding round-trip: removing every inserted continuation sequence
\* (CR LF and one space) from foldIcsLine(line) gives the line back.
C8_FoldRoundTrip ==
    (pin.kind = "fold" /\ pout.done) => Unfold(pout.val) = pin.line

\* C8 witness: a line of more than 150 characters was folded into three
\* physical lines.
C8_Witness ==
    /\ pin.kind = "fold" /\ pout.done
    /\ Len(pin.line) > 150
    /\ Len(pout.val) = Len(pin.line) + 6
    /\ PhysicalLineLens(pout.val) = {75, Len(pin.line) - 149 + 1}

\* The inverse of the escaping rule, read left to right: backslash-backslash
\* is a backslash, backslash-n a newline, backslash-comma a comma,
\* backslash-semicolon a semicolon.
Unescape(s) ==
    LET RECURSIVE Go(_)
        Go(i) ==
            IF i > Len(s) THEN <<>>
            ELSE IF s[i] = BSL /\ i < Len(s) /\ s[i + 1] \in {BSL, "n", ",", ";"}
            THEN <<IF s[i + 1] = "n" THEN LF ELSE s[i + 1]>> \o Go(i + 2)
            ELSE <<s[i]>> \o Go(i + 1)
    IN Go(1)

\* C9. Escaping round-trip: for every text of backslashes, commas,
\* semicolons, newlines and ordinary characters, unescaping icsEscape(text)
\* gives the text back.
C9_EscapeRoundTrip ==
    (pin.kind = "escape" /\ pout.done) => Unescape(pout.val) = pin.text

\* C9 witness: a text with a backslash before an "n", a newline and a
\* semicolon was escaped.
C9_Witness ==
    /\ pin.kind = "escape" /\ pout.done
    /\ pin.text = <<BSL, "n", LF, ";">>
    /\ pout.val = <<BSL, BSL, "n", BSL, "n", BSL, ";">>

\* C10. The events of the final feed are in ascending order of start, and
\* events of equal start are in the order the extractor emitted them.
C10_SortedStable ==
    (pin.kind = "feed" /\ pout.done) =>
        LET up == pout.val.upcoming
        IN \A i, j \in 1..Len(up) :
             i < j => \/ up[i].start.v < up[j].start.v
                      \/ (up[i].start.v = up[j].start.v /\ up[i].ord < up[j].ord)

\* C10 witness: rows starting at t + 1, t, t + 1 came out as second, first,
\* third.
C10_Witness ==
    /\ pin.kind = "feed" /\ pout.done
    /\ Len(pout.val.upcoming) = 3
    /\ pout.val.upcoming[1].ord = 2
    /\ pout.val.upcoming[2].ord = 1
    /\ pout.val.upcoming[3].ord = 3
    /\ pout.val.upcoming[2].start = pout.val.upcoming[3].start

C12_UidStability ==
    (pin.kind = "extract" /\ pout.done) =>
        LET rows == MarkedRows(pin.html)
        IN /\ Len(pout.val) = Len(rows)
           /\ \A i, j \in 1..Len(rows) :
                (LinkIds(rows[i].href) # {}
                 /\ LinkIds(rows[i].href) = LinkIds(rows[j].href))
                    => pout.val[i].uid = pout.val[j].uid

\* C12 witness: two records of match 12345, under different links, with
\* different start times and first teams, have the one uid hltv-match-12345.
C12_Witness ==
    /\ pin.kind = "extract" /\ pout.done
    /\ Len(pout.val) = 2
    /\ pout.val[1].start # pout.val[2].start
    /\ pout.val[1].team1 # pout.val[2].team1
    /\ pout.val[1].url # pout.val[2].url
    /\ pout.val[1].uid = pout.val[2].uid
    /\ pout.val[1].uid
       = <<"h", "l", "t", "v", "-", "m", "a", "t", "c", "h", "-", "1", "2", "3", "4", "5">>

\* Whether s holds the word "vs": the two letters with white space or an
\* end of the text on either side.
HasWordVs(s) ==
    \E i \in 1..(Len(s) - 1) :
        /\ s[i] = "v" /\ s[i + 1] = "s"
        /\ (i = 1 \/ IsSpace(s[i - 1]))
        /\ (i + 1 = Len(s) \/ IsSpace(s[i + 2]))

\* Whether s holds the text "undefined".
HasUndefined(s) ==
    \E i \in 1..Len(s) :
        StartsWithAt(s, i, <<"u", "n", "d", "e", "f", "i", "n", "e", "d">>)

\* C13. Summary assembly never leaves a dangling "vs": the summary of a
\* record holds the word "vs" only when both its team names are non-empty,
\* and never the text "undefined".
C13_NoDanglingVs ==
    (pin.kind = "extract" /\ pout.done) =>
        \A i \in 1..Len(pout.val) :
            /\ HasWordVs(pout.val[i].summary)
                => (pout.val[i].team1 # <<>> /\ pout.val[i].team2 # <<>>)
            /\ ~HasUndefined(pout.val[i].summary)

\* The event name due to the rows of group g of table tbl: the trimmed name
\* of the last header group before g in that table that declares one, or
\* the empty name.
DueName(tbl, g) ==
    LET named == {h \in 1..(g - 1) : tbl[h].tag = "thead" /\ trim(tbl[h].header) # <<>>}
    IN IF named = {} THEN <<>>
       ELSE trim(tbl[CHOOSE h \in named : \A k \in named : k <= h].header)

\* The names due to the rows of a page that carry a marker, in document order.
DueNames(html) ==
    LET OfRows(rows, name) ==
            [k \in 1..Len(SelectSeq(rows, LAMBDA tr : ~(tr.unix = Undefined \/ tr.unix = <<>>)))
                |-> name]
        RECURSIVE Groups(_, _)
        Groups(tbl, g) == IF g > Len(tbl) THEN <<>>
                          ELSE OfRows(tbl[g].rows, DueName(tbl, g)) \o Groups(tbl, g + 1)
        RECURSIVE Tables(_)
        Tables(t) == IF t > Len(html) THEN <<>>
                     ELSE Groups(html[t], 1) \o Tables(t + 1)
    IN Tables(1)

\* Whether s ends with suffix.
EndsWith(s, suffix) ==
    Len(s) >= Len(suffix) /\ SubSeq(s, Len(s) - Len(suffix) + 1, Len(s)) = suffix

\* C17. Event-name carry: every emitted record bears the name of the most
\* recent header group before its row, in the same table, that declared a
\* name, and no name when there is none: a name does not pass from one table
\* into the next.  The name shows as the ending of the summary, after a dash, and
\* the "Event: name" first line of the description.
C17_EventNameCarry ==
    (pin.kind = "extract" /\ pout.done) =>
        LET due == DueNames(pin.html)
            label == <<"E", "v", "e", "n", "t", ":", SP>>
        IN /\ Len(pout.val) = Len(due)
           /\ \A i \in 1..Len(due) :
                LET ev == pout.val[i]
                IN IF due[i] # <<>>
                   THEN /\ EndsWith(ev.summary, <<SP, EMDASH, SP>> \o due[i])
                        /\ StartsWithAt(ev.description, 1, label \o due[i])
                        /\ \/ Len(ev.description) = Len(label \o due[i])
                           \/ ev.description[Len(label \o due[i]) + 1] = LF
                   ELSE /\ \A k \in 1..Len(ev.summary) : ev.summary[k] # EMDASH
                        /\ ~StartsWithAt(ev.description, 1, label)

\* C17 witness: a page of two tables, the first with a named header group;
\* the row of the second table was emitted without a name.
C17_Witness ==
    /\ pin.kind = "extract" /\ pout.done
    /\ Len(pin.html) = 2
    /\ \E g \in 1..Len(pin.html[1]) :
          pin.html[1][g].tag = "thead" /\ trim(pin.html[1][g].header) # <<>>
    /\ Len(pin.html[2]) = 1 /\ pin.html[2][1].tag = "tbody"
    /\ Len(pout.val) = 1
    /\ pout.val[1].summary = <<"A", "l", "p", "h", "a", SP, "v", "s", SP, "B", "e", "t", "a">>

\* C14. When the process has exited (which it does from a signal handler
\* only), every session the bypass service made for it has been sent a
\* sessions.destroy.
C14_SessionsDestroyed ==
    (pin.kind = "server" /\ exited) => service.created \subseteq service.destroySent

\* C15, as claimed: in a lifetime that started a session and has shut down
\* from a signal handler, the token was written exactly twice: set at
\* startup, cleared at shutdown.
C15_WrittenTwice ==
    (pin.kind = "server" /\ exited /\ Len(writes) > 0) =>
        /\ writes = <<"create", "destroy">>
        /\ FLARESOLVERR_SESSION = Null

\* C15, amended: the token is written at most twice, first set by the
\* startup and then cleared by the shutdown; a lifetime that started a
\* session and has shut down has cleared it if the teardown call returned,
\* and has left it set, written once, if the call threw.  No step of a feed
\* request writes it, and the service has made at most one session.
C15_TokenWrites ==
    /\ [](pin.kind = "server" =>
            /\ writes \in {<<>>, <<"create">>, <<"create", "destroy">>}
            /\ (FLARESOLVERR_SESSION # Null) = (writes = <<"create">>)
            /\ Cardinality(service.created) <= 1
            /\ (FLARESOLVERR_SESSION # Null => FLARESOLVERR_SESSION \in service.created))
    /\ [][(FLARESOLVERR_SESSION' # FLARESOLVERR_SESSION) =>
             (/\ Len(writes') = Len(writes) + 1
              /\ \A r \in DOMAIN reqs :
                    reqs'[r].pc = reqs[r].pc \/ reqs'[r].pc = "idle")]_vars
    /\ [][(Len(writes') # Len(writes)) =>
             (FLARESOLVERR_SESSION' # FLARESOLVERR_SESSION)]_vars

\* C15 witness: SIGTERM and SIGINT were both delivered, both handlers sent
\* the teardown, and the process exited on the first answer with the token
\* set once and cleared once.
C15_Witness ==
    /\ pin.kind = "server" /\ exited
    /\ writes = <<"create", "destroy">>
    /\ FLARESOLVERR_SESSION = Null
    /\ \A sig \in Signals : handlers[sig] # "idle"

\* C16. Session setup is best-effort: the request.get a feed request sends
\* carries the token when the token is set at that moment and no session
\* field otherwise, and a request succeeds or fails on its retrieval alone:
\* it is answered 200 exactly when it was served from the cache or its
\* request.get came back ok, whatever became of sessions.create.
C16_SessionBestEffort ==
    /\ [][\A r \in DOMAIN reqs :
            (reqs[r].pc = "idle" /\ reqs'[r].pc = "fetching") =>
                reqs'[r].session = FLARESOLVERR_SESSION]_vars
    /\ [](\A r \in DOMAIN reqs :
            reqs[r].pc = "done" =>
                /\ (reqs[r].resp.status = 200) = (reqs[r].hit \/ reqs[r].outcome = "ok")
                /\ (reqs[r].resp.status = 502) = (~reqs[r].hit /\ reqs[r].outcome # "ok"))

\* C16 witness: sessions.create has not been answered, and a feed request
\* that fetched its page (with no session) has its 200.
C16_Witness ==
    /\ pin.kind = "server" /\ startup = "creating"
    /\ FLARESOLVERR_SESSION = Null
    /\ \E r \in ReqIds :
          /\ reqs[r].pc = "done" /\ reqs[r].gets = 1
          /\ reqs[r].outcome = "ok" /\ reqs[r].resp.status = 200

\* C18. No automatic retries: a feed request sends at most one request.get,
\* none when the cache holds a young entry for its url, and once its
\* retrieval has failed it is answered 502 and sends nothing more.
C18_NoRetry ==
    /\ [](\A r \in DOMAIN reqs :
            /\ reqs[r].gets \in {0, 1}
            /\ reqs[r].hit => reqs[r].gets = 0
            /\ (reqs[r].pc = "done" /\ reqs[r].resp.status = 502) => reqs[r].gets = 1)
    /\ [][\A r \in DOMAIN reqs :
            /\ (/\ reqs[r].pc = "idle" /\ reqs'[r].pc # "idle"
                /\ reqs'[r].url \in DOMAIN CACHE
                /\ clock - CACHE[reqs'[r].url].ts < 60 * 60 * 1000)
               => reqs'[r].gets = 0
            /\ reqs[r].pc = "fetching" => reqs'[r].gets <= reqs[r].gets
            /\ reqs[r].pc = "done" =>
                 (reqs'[r].pc \in {"done", "idle"} /\ reqs'[r].gets <= reqs[r].gets)]_vars

\* C18 witness: one request failed after its single request.get and has its
\* 502; the next request for the same url was served from no cache entry and
\* failed after a single request.get of its own.
C18_Witness ==
    /\ pin.kind = "server"
    /\ \E r1, r2 \in ReqIds :
          /\ r1 < r2 /\ reqs[r1].url = reqs[r2].url
          /\ reqs[r1].pc = "done" /\ reqs[r1].resp.status = 502 /\ reqs[r1].gets = 1
          /\ reqs[r2].pc = "done" /\ reqs[r2].resp.status = 502 /\ reqs[r2].gets = 1
          /\ reqs[r1].url \notin DOMAIN CACHE

\* The bodies successful request.get calls have returned for a url.
Served(url) ==
    {reqs[r].page : r \in {q \in DOMAIN reqs : /\ reqs[q].pc = "done"
                                                /\ reqs[q].outcome = "ok"
                                                /\ reqs[q].url = url}}

\* C19. Under any interleaving of feed requests, the cache entry of a url
\* holds a body that a successful request.get for that url returned, and
\* every request answered 200 was built from such a body.
C19_CacheIntegrity ==
    pin.kind = "server" =>
        /\ \A url \in DOMAIN CACHE : CACHE[url].body \in Served(url)
        /\ \A r \in ReqIds :
              (reqs[r].pc = "done" /\ reqs[r].resp.status = 200)
                  => reqs[r].page \in Served(reqs[r].url)

\* C19 witness: two requests for one url both missed (no time has passed
\* since the start, so neither found a stale entry) and both fetched; they
\* got different bodies, and the cache holds one of the two.
C19_Witness ==
    /\ pin.kind = "server" /\ clock = ServerNow0
    /\ \E r1, r2 \in ReqIds :
          /\ r1 # r2 /\ reqs[r1].url = reqs[r2].url
          /\ reqs[r1].pc = "done" /\ reqs[r2].pc = "done"
          /\ reqs[r1].sets = 1 /\ reqs[r2].sets = 1
          /\ reqs[r1].page # reqs[r2].page
          /\ CACHE[reqs[r1].url].body = reqs[r1].page

\* C20. No request.get is sent with a session for which a sessions.destroy
\* has already been sent.
C20_NoDestroyedSession ==
    [][\A r \in DOMAIN reqs :
        (reqs[r].pc = "idle" /\ reqs'[r].pc = "fetching") =>
            reqs'[r].session \notin service.destroySent]_vars

====
